---- MODULE Spec2Model ----
(***************************************************************************)
(* llmxml: schema-directed incremental tag parser (src/llmxml/parser2.py), *)
(* with the in-place model mutation of src/llmxml/parser.py.               *)
(*                                                                         *)
(* Text is a sequence of one-character strings.  Python positions are kept *)
(* 0-based: position p names the character xml[p + 1].                     *)
(***************************************************************************)
EXTENDS Integers, Sequences, FiniteSets, TLC

VARIABLES model_fields, model, doc, n, out, partial_out, calls

vars == <<model_fields, model, doc, n, out, partial_out, calls>>

(***************************************************************************)
(* Names that occur in the target models and in the text.                  *)
(***************************************************************************)
Partial == <<"P","a","r","t","i","a","l">>
Doc == <<"D","o","c">>
Item == <<"I","t","e","m">>
FileAction == <<"F","i","l","e","A","c","t","i","o","n">>
FileOperation == <<"F","i","l","e","O","p","e","r","a","t","i","o","n">>
ResponseObject == <<"R","e","s","p","o","n","s","e","O","b","j","e","c","t">>
Response == <<"R","e","s","p","o","n","s","e">>
Movie == <<"M","o","v","i","e">>
f_name == <<"n","a","m","e">>
f_tags == <<"t","a","g","s">>
f_label == <<"l","a","b","e","l">>
f_thinking == <<"t","h","i","n","k","i","n","g">>
f_file_operation == <<"f","i","l","e","_","o","p","e","r","a","t","i","o","n">>
f_response == <<"r","e","s","p","o","n","s","e">>
f_movies == <<"m","o","v","i","e","s">>
f_title == <<"t","i","t","l","e">>
f_director == <<"d","i","r","e","c","t","o","r">>
f_args == <<"a","r","g","s">>
v_open == <<"o","p","e","n">>
v_edit == <<"e","d","i","t">>
v_create == <<"c","r","e","a","t","e">>
n_EDIT == <<"E","D","I","T">>
CodeAction == <<"C","o","d","e","A","c","t","i","o","n">>
CreateAction == <<"C","r","e","a","t","e","A","c","t","i","o","n">>
EditAction == <<"E","d","i","t","A","c","t","i","o","n">>
CommandAction == <<"C","o","m","m","a","n","d","A","c","t","i","o","n">>
BasicResponse == <<"B","a","s","i","c","R","e","s","p","o","n","s","e">>
ModelWithOptional == <<"M","o","d","e","l","W","i","t","h","O","p","t","i","o","n","a","l">>
Script == <<"S","c","r","i","p","t">>
ShellAction == <<"S","h","e","l","l","A","c","t","i","o","n">>
Plan == <<"P","l","a","n">>
GroupAction == <<"G","r","o","u","p","A","c","t","i","o","n">>
TypingBasicResponse == <<"T","y","p","i","n","g","B","a","s","i","c","R","e","s","p","o","n","s","e">>
ModelWithTypingOptional == <<"M","o","d","e","l","W","i","t","h","T","y","p","i","n","g","O","p","t","i","o","n","a","l">>
f_actions == <<"a","c","t","i","o","n","s">>
f_new_file_path == <<"n","e","w","_","f","i","l","e","_","p","a","t","h">>
f_file_contents == <<"f","i","l","e","_","c","o","n","t","e","n","t","s">>
f_original_file_path == <<"o","r","i","g","i","n","a","l","_","f","i","l","e","_","p","a","t","h">>
f_new_file_contents == <<"n","e","w","_","f","i","l","e","_","c","o","n","t","e","n","t","s">>
f_command == <<"c","o","m","m","a","n","d">>
f_required_field == <<"r","e","q","u","i","r","e","d","_","f","i","e","l","d">>
f_optional_field == <<"o","p","t","i","o","n","a","l","_","f","i","e","l","d">>
f_steps == <<"s","t","e","p","s">>
f_step == <<"s","t","e","p">>
Label == <<"L", "a", "b", "e", "l">>
f_inner == <<"i","n","n","e","r">>

UpperChars == <<"A","B","C","D","E","F","G","H","I","J","K","L","M","N","O","P","Q","R","S","T","U","V","W","X","Y","Z">>
LowerChars == <<"a","b","c","d","e","f","g","h","i","j","k","l","m","n","o","p","q","r","s","t","u","v","w","x","y","z">>

IsUpper(c) == \E i \in 1..Len(UpperChars) : UpperChars[i] = c

Lower(c) ==
  IF IsUpper(c)
    THEN LowerChars[CHOOSE i \in 1..Len(UpperChars) : UpperChars[i] = c]
    ELSE c

(* re.sub("(?!^)([A-Z]+)", r"_\1", string).lower(): an underscore before   *)
(* every run of capitals that does not start the string, then lower case.  *)
RECURSIVE SnakeFrom(_, _)
SnakeFrom(s, i) ==
  IF i > Len(s) THEN <<>>
  ELSE (IF i > 1 /\ IsUpper(s[i]) /\ (i = 2 \/ ~IsUpper(s[i - 1]))
          THEN <<"_">> ELSE <<>>)
       \o <<Lower(s[i])>> \o SnakeFrom(s, i + 1)

camel_to_snake(string) == SnakeFrom(string, 1)

(***************************************************************************)
(* Type annotations.  k is the kind of the Python object:                  *)
(*   "str" "int" "float" "bool" "nonetype"  the builtin classes            *)
(*   "enum"   an Enum class (cls: its name)                                *)
(*   "model"  a pydantic BaseModel class (cls: its name)                   *)
(*   "list"   types.GenericAlias list[...]                                 *)
(*   "union"  typing.Union[...] / Optional[...] (has __origin__)           *)
(*   "uniontype"  X | None, types.UnionType (no __origin__)                *)
(*   "typinglist"  typing.List[...] (has __origin__, no types.GenericAlias) *)
(***************************************************************************)
Ann(k, cls, args) == [k |-> k, cls |-> cls, args |-> args]
StrT == Ann("str", <<>>, <<>>)
IntT == Ann("int", <<>>, <<>>)
FloatT == Ann("float", <<>>, <<>>)
BoolT == Ann("bool", <<>>, <<>>)
NoneT == Ann("nonetype", <<>>, <<>>)
EnumT(cls) == Ann("enum", cls, <<>>)
ModelT(cls) == Ann("model", cls, <<>>)
ListT(arg) == Ann("list", <<>>, <<arg>>)
UnionT(args) == Ann("union", <<>>, args)
UnionTypeT(args) == Ann("uniontype", <<>>, args)
TypingListT(arg) == Ann("typinglist", <<>>, <<arg>>)

(* PydanticUndefined: the default of a field declared Field(...). *)
Undefined == [t |-> "undefined", v |-> <<>>]

FieldInfoWith(fname, ann, default) == [fname |-> fname, ann |-> ann, default |-> default]

FieldInfo(fname, ann) == FieldInfoWith(fname, ann, Undefined)

(* The declared values of the enumerations, in declaration order           *)
(* (FileOperation: src/tests/test_parser.py lines 34-37).                  *)
EnumValues(cls) ==
  IF cls = FileOperation THEN <<v_open, v_edit, v_create>> ELSE <<>>

(* The model classes as declared: class name -> model_fields.              *)
DeclaredFields ==
  (Doc :> <<FieldInfo(f_name, StrT), FieldInfo(f_tags, ListT(ModelT(Item)))>>)
  @@ (Item :> <<FieldInfo(f_label, StrT)>>)
  @@ (FileAction :> <<FieldInfo(f_thinking, StrT),
                      FieldInfo(f_file_operation, EnumT(FileOperation))>>)
  @@ (ResponseObject :> <<FieldInfo(f_response, ModelT(Response))>>)
  @@ (Response :> <<FieldInfo(f_movies, ListT(ModelT(Movie)))>>)
  @@ (Movie :> <<FieldInfo(f_title, StrT), FieldInfo(f_director, StrT)>>)
  @@ (CodeAction :>
        <<FieldInfoWith(f_thinking, StrT, [t |-> "str", v |-> <<>>]),
          FieldInfoWith(f_actions,
                        ListT(UnionT(<<ModelT(CreateAction), ModelT(EditAction),
                                       ModelT(CommandAction)>>)),
                        [t |-> "list", v |-> <<>>])>>)
  @@ (CreateAction :> <<FieldInfo(f_new_file_path, StrT),
                        FieldInfo(f_file_contents, StrT)>>)
  @@ (EditAction :> <<FieldInfo(f_original_file_path, StrT),
                      FieldInfo(f_new_file_contents, StrT)>>)
  @@ (CommandAction :> <<FieldInfo(f_command, StrT)>>)
  @@ (BasicResponse :> <<FieldInfo(f_thinking, StrT), FieldInfo(f_movies, ListT(StrT))>>)
  @@ (ModelWithOptional :>
        <<FieldInfo(f_required_field, StrT),
          FieldInfoWith(f_optional_field, UnionTypeT(<<StrT, NoneT>>),
                        [t |-> "none", v |-> <<>>])>>)
  @@ (Script :> <<FieldInfo(f_steps,
                            ListT(UnionT(<<ModelT(CommandAction), ModelT(ShellAction)>>)))>>)
  @@ (ShellAction :> <<FieldInfo(f_command, StrT)>>)
  @@ (Plan :> <<FieldInfo(f_step, UnionT(<<ModelT(CommandAction), ModelT(GroupAction)>>))>>)
  @@ (GroupAction :> <<FieldInfo(f_inner,
                                 UnionT(<<ModelT(CreateAction), ModelT(EditAction)>>))>>)
  @@ (TypingBasicResponse :> <<FieldInfo(f_thinking, StrT),
                               FieldInfo(f_movies, TypingListT(StrT))>>)
  @@ (ModelWithTypingOptional :>
        <<FieldInfo(f_required_field, StrT),
          FieldInfoWith(f_optional_field, UnionT(<<StrT, NoneT>>),
                        [t |-> "none", v |-> <<>>])>>)
  @@ (Label :> <<FieldInfo(f_label, StrT)>>)

(***************************************************************************)
(* inspect_type_annotation: the type dict of an annotation.  hasName says  *)
(* whether the dict has a "name" key; bad is set where the assertion on a  *)
(* list's item types fails (the call raises AssertionError).               *)
(***************************************************************************)
TypeDict(origin, hasName, name, args, bad) ==
  [origin |-> origin, hasName |-> hasName, name |-> name, args |-> args, bad |-> bad]

HasOrigin(a) == a.k \in {"list", "union", "typinglist"}

AnyBad(ds) == \E i \in 1..Len(ds) : ds[i].bad

RECURSIVE inspect_type_annotation(_, _, _)
inspect_type_annotation(mf, annotation, name) ==
  IF annotation.k = "list" THEN
    LET args == annotation.args
        ok == \A i \in 1..Len(args) : HasOrigin(args[i]) \/ args[i].k = "model"
        sub == [i \in 1..Len(args) |-> inspect_type_annotation(mf, args[i], <<>>)]
    IN IF ok THEN TypeDict(annotation, TRUE, name, sub, AnyBad(sub))
             ELSE TypeDict(annotation, TRUE, name, <<>>, TRUE)
  ELSE IF HasOrigin(annotation) THEN
    LET args == annotation.args
        sub == [i \in 1..Len(args) |->
                  inspect_type_annotation(mf, args[i], camel_to_snake(name))]
    IN TypeDict(annotation, FALSE, <<>>, sub, AnyBad(sub))
  ELSE IF annotation.k = "model" THEN
    LET fields == mf[annotation.cls]
        sub == [i \in 1..Len(fields) |->
                  inspect_type_annotation(mf, fields[i].ann, fields[i].fname)]
    IN TypeDict(annotation, TRUE, camel_to_snake(annotation.cls), sub, AnyBad(sub))
  ELSE TypeDict(annotation, TRUE, name, <<>>, FALSE)

(***************************************************************************)
(* Python values.  A dict is a function from keys to values.               *)
(***************************************************************************)
StrV(s) == [t |-> "str", v |-> s]
ListV(l) == [t |-> "list", v |-> l]
DictV(d) == [t |-> "dict", v |-> d]
IntV(i) == [t |-> "int", v |-> <<i>>]
FloatV(i) == [t |-> "float", v |-> <<i>>]
BoolV(b) == [t |-> "bool", v |-> <<b>>]
EnumV(cls, value) == [t |-> "enum", v |-> <<cls, value>>]
NoneV == [t |-> "none", v |-> <<>>]
EmptyDict == DictV(<<>>)

(* A test that takes every value as true: "if True". *)
always_truthy(x) == TRUE

(* Python truth value: "if dict_entry", "if not parsed_dict". *)
Truthy(x) ==
  CASE x.t \in {"str", "list"} -> x.v # <<>>
    [] x.t = "dict" -> DOMAIN x.v # {}
    [] x.t \in {"int", "float"} -> x.v[1] # 0
    [] x.t = "bool" -> x.v[1]
    [] OTHER -> FALSE

(* An assignment that keeps the value a key already has. *)
dict_keep_first(d, key, value) == DictV(d.v @@ (key :> value))

(* d[key] = value *)
DictSet(d, key, value) == DictV((key :> value) @@ d.v)

(***************************************************************************)
(* _clean_xml: re.sub(r"^[^<]*", "", s), then re.sub(r"[^>]*$", "", s).    *)
(***************************************************************************)
(* A text handed on as it is. *)
strip_nothing(s) == s

StripPrefix(s) ==
  LET at == {i \in 1..Len(s) : s[i] = "<"}
  IN IF at = {} THEN <<>>
     ELSE SubSeq(s, CHOOSE i \in at : \A j \in at : i <= j, Len(s))

StripSuffix(s) ==
  LET at == {i \in 1..Len(s) : s[i] = ">"}
  IN IF at = {} THEN <<>>
     ELSE SubSeq(s, 1, CHOOSE i \in at : \A j \in at : i >= j)

_clean_xml(xml_content) == StripSuffix(StripPrefix(xml_content))

(***************************************************************************)
(* Regular-expression and string searches of _recurse.                     *)
(***************************************************************************)
OpenTagString(name) == <<"<">> \o name \o <<">">>
CloseTagString(name) == <<"<", "/">> \o name \o <<">">>

(* pat occurs in xml at 0-based position p. *)
MatchAt(xml, p, pat) ==
  /\ p + Len(pat) <= Len(xml)
  /\ \A k \in 1..Len(pat) : xml[p + k] = pat[k]

NoMatch == [found |-> FALSE, start |-> -1, end |-> -1, group |-> <<>>]

(* regex.search(xml, pos) for "<(n1|n2|...)>" (open) or "</(name)>": the   *)
(* leftmost match at or after pos.                                         *)
TagString(nm, closing) == IF closing THEN CloseTagString(nm) ELSE OpenTagString(nm)

(* The positions at or after pos where the tag of one of the names starts. *)
TagStarts(xml, pos, names, closing) ==
  {p \in pos..(Len(xml) - 1) :
     xml[p + 1] = "<" /\ \E nm \in names : MatchAt(xml, p, TagString(nm, closing))}

(* A match that ends where it starts. *)
match_of_no_width(xml, start, names, closing) ==
  [found |-> TRUE, start |-> start, end |-> start,
   group |-> CHOOSE x \in names : MatchAt(xml, start, TagString(x, closing))]

(* The match object of the tag that starts at start. *)
MatchFrom(xml, start, names, closing) ==
  LET nm == CHOOSE x \in names : MatchAt(xml, start, TagString(x, closing))
  IN [found |-> TRUE, start |-> start,
      end |-> start + Len(nm) + (IF closing THEN 3 ELSE 2), group |-> nm]

LeftMost(starts) == CHOOSE p \in starts : \A q \in starts : p <= q

SearchTag(xml, pos, names, closing) ==
  IF TagStarts(xml, pos, names, closing) = {} THEN NoMatch
  ELSE MatchFrom(xml, LeftMost(TagStarts(xml, pos, names, closing)), names, closing)

(* xml.rfind(sub): the last start of sub anywhere in xml, or -1. *)
rfind_anywhere(xml, sub, end) ==
  LET at == {p \in 0..Len(xml) : MatchAt(xml, p, sub)}
  IN IF at = {} THEN -1 ELSE CHOOSE p \in at : \A q \in at : p >= q

(* xml.rfind(sub, 0, end): the last start p with p + len(sub) <= end, or -1 *)
RFind(xml, sub, end) ==
  LET at == {p \in 0..Len(xml) : p + Len(sub) <= end /\ MatchAt(xml, p, sub)}
  IN IF at = {} THEN -1 ELSE CHOOSE p \in at : \A q \in at : p >= q

(* xml[from:to] of Python, for 0 <= from. *)
Slice(xml, from, to) ==
  IF from >= to THEN <<>> ELSE SubSeq(xml, from + 1, to)

(***************************************************************************)
(* Classification of a type dict's origin.                                 *)
(***************************************************************************)
_is_list_type(t) == t.k = "list"

_is_pydantic_model(t) == t.k = "model"

(* isinstance(t, type): a class, not a generic alias or a union object. *)
IsClass(t) == t.k \in {"str", "int", "float", "bool", "nonetype", "enum", "model"}

(* args with a "name" key and an origin other than NoneType, as a dict     *)
(* name -> arg; a later arg of the same name replaces an earlier one.      *)
field_names_at_level(args) ==
  LET ok == {i \in 1..Len(args) : args[i].hasName /\ args[i].origin.k # "nonetype"}
  IN [nm \in {args[i].name : i \in ok} |->
        args[CHOOSE i \in ok : /\ args[i].name = nm
                               /\ \A j \in ok : args[j].name = nm => j <= i]]

(* The args of the nameless args at every depth below args: alternatives   *)
(* flattened eagerly instead of one level only.                            *)
RECURSIVE UnionArgsDeep(_, _)
UnionArgsDeep(args, i) ==
  IF i > Len(args) THEN <<>>
  ELSE (IF args[i].hasName THEN UnionArgsDeep(args[i].args, 1)
        ELSE args[i].args \o UnionArgsDeep(args[i].args, 1))
       \o UnionArgsDeep(args, i + 1)

(* The args of the nameless (union) args, in order. *)
RECURSIVE UnionArgsFrom(_, _)
UnionArgsFrom(args, i) ==
  IF i > Len(args) THEN <<>>
  ELSE (IF args[i].hasName THEN <<>> ELSE args[i].args) \o UnionArgsFrom(args, i + 1)

(* _get_possible_opening_tags without the filter on seen_tags. *)
candidates_keeping_seen(type_dict, seen_tags) ==
  field_names_at_level(UnionArgsFrom(type_dict.args, 1))
  @@ field_names_at_level(type_dict.args)

_get_possible_opening_tags(type_dict, seen_tags) ==
  LET args == type_dict.args
      first_level == field_names_at_level(args)
      second_level == field_names_at_level(UnionArgsFrom(args, 1))
      combined == second_level @@ first_level
  IN [k \in (DOMAIN combined) \ seen_tags |-> combined[k]]

(* _is_field_optional over the "args" list of the dict it is given. *)
_is_field_optional(args, field) ==
  LET hit == {i \in 1..Len(args) :
                ~args[i].hasName /\ args[i].args[1].name = field}
  IN /\ hit # {}
     /\ LET u == args[CHOOSE i \in hit : \A j \in hit : i <= j].args
        IN \E k \in 1..Len(u) : u[k].origin.k = "nonetype"

(* parsed_dict.get("args", []) in _fill_with_empty: the dict handed to     *)
(* _is_field_optional is the parsed value, which has an "args" entry only  *)
(* when the model declares a field of that name (none here does).          *)
ParsedArgs(parsed_dict) == <<>>

_get_default_for_primitive(arg) ==
  CASE arg.origin.k = "str" -> StrV(<<>>)
    [] arg.origin.k = "int" -> IntV(0)
    [] arg.origin.k = "float" -> FloatV(0)
    [] arg.origin.k = "bool" -> BoolV(FALSE)
    [] OTHER -> NoneV

(* The seen_tags argument of the call in _recurse (line 158) when nothing  *)
(* is passed: the default of the parameter (line 122).                     *)
no_seen_tags(open_arg) == {}

(* The seen_tags argument of the call in _recurse (line 158). *)
RecurseSeenTags(open_arg) == {open_arg.name}

(* The seen_tags argument of the call in _fill_with_empty (line 234). *)
FillSeenTags(parsed_dict) == DOMAIN parsed_dict.v

RECURSIVE _fill_with_empty(_, _)
_fill_with_empty(parsed_dict, type_dict) ==
  LET unseen == _get_possible_opening_tags(type_dict, FillSeenTags(parsed_dict))
      fresh == {tag \in DOMAIN unseen :
                /\ ~_is_field_optional(ParsedArgs(parsed_dict), tag)
                /\ \/ _is_pydantic_model(unseen[tag].origin)
                   \/ _is_list_type(unseen[tag].origin)
                   \/ IsClass(unseen[tag].origin)}
  IN DictV([k \in (DOMAIN parsed_dict.v) \cup fresh |->
              IF k \in DOMAIN parsed_dict.v THEN parsed_dict.v[k]
              ELSE IF _is_pydantic_model(unseen[k].origin)
                     THEN _fill_with_empty(EmptyDict, unseen[k])
              ELSE IF _is_list_type(unseen[k].origin) THEN ListV(<<>>)
              ELSE _get_default_for_primitive(unseen[k])])

(***************************************************************************)
(* _recurse.  The result is (val, pos, content) of the returned tuple,     *)
(* exc the exception that left the call ("" for none) and ret the source   *)
(* line of the return statement taken.                                     *)
(***************************************************************************)
Ret(val, pos, content, line) ==
  [val |-> val, pos |-> pos, content |-> content, exc |-> "", ret |-> line]

Raise(exc, line) ==
  [val |-> NoneV, pos |-> -1, content |-> FALSE, exc |-> exc, ret |-> line]

(* Returns after the while loop that report no content. *)
after_loop_silent(xml_content, open_arg, attribute_dict, attribute_list, has_child_content) ==
  IF _is_list_type(open_arg.origin)
    THEN Ret(ListV(attribute_list), Len(xml_content), FALSE, 224)
  ELSE IF _is_pydantic_model(open_arg.origin)
    THEN Ret(_fill_with_empty(attribute_dict, open_arg), Len(xml_content), FALSE, 227)
  ELSE Ret(_get_default_for_primitive(open_arg), Len(xml_content), FALSE, 230)

(* The returns after the while loop (lines 223-230). *)
AfterLoop(xml_content, open_arg, attribute_dict, attribute_list, has_child_content) ==
  IF _is_list_type(open_arg.origin)
    THEN Ret(ListV(attribute_list), Len(xml_content), has_child_content, 224)
  ELSE IF _is_pydantic_model(open_arg.origin)
    THEN Ret(_fill_with_empty(attribute_dict, open_arg), Len(xml_content),
             has_child_content, 227)
  ELSE Ret(_get_default_for_primitive(open_arg), Len(xml_content), FALSE, 230)

(* Neither an opening nor a closing tag at or after pos (lines 176-190). *)
NeitherFound(xml_content, open_arg, tags, attribute_dict, attribute_list) ==
  IF _is_list_type(open_arg.origin) THEN
    IF Len(attribute_list) = 0
      THEN Ret(ListV(<<>>), Len(xml_content), FALSE, 179)
    ELSE IF open_arg.name \notin DOMAIN tags
      THEN Raise("KeyError", 180)
    ELSE Ret(ListV(SubSeq(attribute_list, 1, Len(attribute_list) - 1)
                   \o <<_fill_with_empty(attribute_list[Len(attribute_list)],
                                         tags[open_arg.name])>>),
             Len(xml_content), FALSE, 180)
  ELSE IF _is_pydantic_model(open_arg.origin) THEN
    Ret(_fill_with_empty(attribute_dict, open_arg), Len(xml_content), FALSE, 183)
  ELSE
    LET opening_tag_string == OpenTagString(open_arg.name)
        opening_tag_idx == RFind(xml_content, opening_tag_string, Len(xml_content))
    IN Ret(StrV(Slice(xml_content, opening_tag_idx + Len(opening_tag_string),
                      Len(xml_content))),
           Len(xml_content), TRUE, 190)

(* A return at the closing tag that hands a list back last item first. *)
closing_reversed(xml_content, open_arg, pos, closing_match, attribute_dict, attribute_list) ==
  IF _is_list_type(open_arg.origin)
    THEN Ret(ListV([i \in 1..Len(attribute_list) |->
                      attribute_list[Len(attribute_list) + 1 - i]]),
             closing_match.end, TRUE, 210)
  ELSE IF _is_pydantic_model(open_arg.origin)
    THEN Ret(attribute_dict, closing_match.end, TRUE, 213)
  ELSE
    LET opening_tag_string == OpenTagString(open_arg.name)
        opening_tag_idx == RFind(xml_content, opening_tag_string, pos)
    IN Ret(StrV(Slice(xml_content, opening_tag_idx + Len(opening_tag_string),
                      closing_match.start)),
           closing_match.end, TRUE, 221)

(* The closing tag of open_arg comes first (lines 208-221). *)
Closing(xml_content, open_arg, pos, closing_match, attribute_dict, attribute_list) ==
  IF _is_list_type(open_arg.origin)
    THEN Ret(ListV(attribute_list), closing_match.end, TRUE, 210)
  ELSE IF _is_pydantic_model(open_arg.origin)
    THEN Ret(attribute_dict, closing_match.end, TRUE, 213)
  ELSE
    LET opening_tag_string == OpenTagString(open_arg.name)
        opening_tag_idx == RFind(xml_content, opening_tag_string, pos)
    IN Ret(StrV(Slice(xml_content, opening_tag_idx + Len(opening_tag_string),
                      closing_match.start)),
           closing_match.end, TRUE, 221)

RECURSIVE _recurse(_, _, _), RecurseLoop(_, _, _, _, _, _)
RecurseLoop(xml_content, open_arg, pos, attribute_dict, attribute_list, has_child_content) ==
  IF ~(pos < Len(xml_content))
    THEN AfterLoop(xml_content, open_arg, attribute_dict, attribute_list,
                   has_child_content)
  ELSE
    LET tags == _get_possible_opening_tags(open_arg, RecurseSeenTags(open_arg))
        opening_match == IF DOMAIN tags = {} THEN NoMatch
                         ELSE SearchTag(xml_content, pos, DOMAIN tags, FALSE)
        closing_match == SearchTag(xml_content, pos, {open_arg.name}, TRUE)
    IN IF ~opening_match.found /\ ~closing_match.found THEN
         NeitherFound(xml_content, open_arg, tags, attribute_dict, attribute_list)
       ELSE IF /\ opening_match.found
               /\ (~closing_match.found \/ opening_match.start < closing_match.start)
       THEN
         LET new_open_arg == tags[opening_match.group]
             r == _recurse(xml_content, new_open_arg, opening_match.end)
             appended == _is_list_type(open_arg.origin) /\ r.content
         IN IF r.exc # "" THEN r
            ELSE RecurseLoop(xml_content, open_arg, r.pos,
                   IF ~appended /\ Truthy(r.val)
                     THEN DictSet(attribute_dict, new_open_arg.name, r.val)
                     ELSE attribute_dict,
                   IF appended THEN Append(attribute_list, r.val) ELSE attribute_list,
                   has_child_content \/ r.content)
       ELSE
         Closing(xml_content, open_arg, pos, closing_match, attribute_dict,
                 attribute_list)

_recurse(xml_content, open_arg, pos) ==
  RecurseLoop(xml_content, open_arg, pos,
              IF _is_list_type(open_arg.origin)
                THEN DictSet(EmptyDict, open_arg.name, ListV(<<>>)) ELSE EmptyDict,
              <<>>, FALSE)

(***************************************************************************)
(* Construction of the pydantic model from the parsed dict (line 259).     *)
(* The class validates against the fields it was declared with; every      *)
(* field is declared Field(...), so it is required.  Keys that are not     *)
(* fields are ignored.  An enumeration is looked up by declared value.     *)
(***************************************************************************)
IsEnumValue(cls, s) == \E i \in 1..Len(EnumValues(cls)) : EnumValues(cls)[i] = s

RECURSIVE Valid(_, _)
Valid(ann, x) ==
  CASE ann.k \in {"str", "int", "float", "bool"} -> x.t = ann.k
    [] ann.k = "nonetype" -> x.t = "none"
    [] ann.k = "enum" -> x.t = "str" /\ IsEnumValue(ann.cls, x.v)
    [] ann.k \in {"list", "typinglist"} ->
         x.t = "list" /\ \A i \in 1..Len(x.v) : Valid(ann.args[1], x.v[i])
    [] ann.k \in {"union", "uniontype"} ->
         \E i \in 1..Len(ann.args) : Valid(ann.args[i], x)
    [] ann.k = "model" ->
         /\ x.t = "dict"
         /\ \A i \in 1..Len(DeclaredFields[ann.cls]) :
              LET f == DeclaredFields[ann.cls][i]
              IN IF f.fname \in DOMAIN x.v THEN Valid(f.ann, x.v[f.fname])
                 ELSE f.default # Undefined
    [] OTHER -> FALSE

(* The member of a union that validates the value: the leftmost of the     *)
(* members that accept it.                                                 *)
UnionMember(ann, x) ==
  CHOOSE i \in 1..Len(ann.args) :
    /\ Valid(ann.args[i], x)
    /\ \A j \in 1..Len(ann.args) : Valid(ann.args[j], x) => i <= j

(* The class an object of a union field is built as. *)
BranchOf(ann, x) == ann.args[UnionMember(ann, x)].cls

RECURSIVE Construct(_, _)
Construct(ann, x) ==
  CASE ann.k = "enum" -> EnumV(ann.cls, x.v)
    [] ann.k \in {"list", "typinglist"} ->
         ListV([i \in 1..Len(x.v) |-> Construct(ann.args[1], x.v[i])])
    [] ann.k \in {"union", "uniontype"} -> Construct(ann.args[UnionMember(ann, x)], x)
    [] ann.k = "model" ->
         LET fields == DeclaredFields[ann.cls]
         IN DictV([nm \in {fields[i].fname : i \in 1..Len(fields)} |->
                     LET f == CHOOSE f \in {fields[i] : i \in 1..Len(fields)} :
                                f.fname = nm
                     IN IF nm \in DOMAIN x.v THEN Construct(f.ann, x.v[nm])
                        ELSE f.default])
    [] OTHER -> x

(***************************************************************************)
(* parse_xml of parser2.py.  mf is the state of the classes' model_fields  *)
(* when the call is made.                                                  *)
(***************************************************************************)
Result(exc, parsed, val) == [exc |-> exc, parsed |-> parsed, val |-> val]

(* Lines 255-256: the top-level value, empty if falsy, with its defaults. *)
FilledResult(type_dict, r) ==
  IF r.exc # "" THEN Result(r.exc, NoneV, NoneV)
  ELSE Result("", _fill_with_empty(IF Truthy(r.val) THEN r.val ELSE EmptyDict,
                                   type_dict), NoneV)

(* Lines 253-256 for the cleaned text and the model's type dict. *)
ParsedDictOf(type_dict, xml) ==
  IF type_dict.bad THEN Result("AssertionError", NoneV, NoneV)
  ELSE FilledResult(type_dict, _recurse(xml, type_dict, 0))

(* The dict handed to the model constructor (lines 249-256). *)
ParsedDict(mf, cls, xml_content) ==
  ParsedDictOf(inspect_type_annotation(mf, ModelT(cls), <<>>), _clean_xml(xml_content))

(* Line 259: the model built from the dict, or pydantic's ValidationError. *)
ModelOf(cls, d) ==
  IF d.exc # "" THEN d
  ELSE IF ~Valid(ModelT(cls), d.parsed) THEN Result("ValidationError", d.parsed, NoneV)
  ELSE Result("", d.parsed, Construct(ModelT(cls), d.parsed))

(* exc: the exception that reaches the caller ("" for none); parsed: the   *)
(* dict built by lines 253-256; val: the model instance returned.          *)
parse_xml(mf, cls, xml_content) == ModelOf(cls, ParsedDict(mf, cls, xml_content))

(***************************************************************************)
(* parser.py: _create_partial_model (lines 416-464) and the branch of its  *)
(* parse_xml for a blank buffer (lines 467-469).  The partial class is     *)
(* entered in the class table under its name; the fields of the class it   *)
(* is made from get their annotation replaced in place (lines 443, 458).   *)
(***************************************************************************)
StartsWith(s, prefix) ==
  Len(s) >= Len(prefix) /\ SubSeq(s, 1, Len(prefix)) = prefix

(* An instance of cls built without arguments: every field at its default. *)
DefaultInstance(mf, cls) ==
  DictV([nm \in {mf[cls][i].fname : i \in 1..Len(mf[cls])} |->
           (CHOOSE f \in {mf[cls][i] : i \in 1..Len(mf[cls])} : f.fname = nm).default])

RECURSIVE _create_partial_model(_, _), PartialFields(_, _, _, _)
PartialFields(mf, cls, i, fields) ==
  IF i > Len(mf[cls]) THEN [mf |-> mf, fields |-> fields]
  ELSE
    LET field_info == mf[cls][i]
        a == field_info.ann
        step ==
          CASE a.k = "str" -> [mf |-> mf, ann |-> a, default |-> StrV(<<>>)]
            [] a.k \in {"list", "typinglist"} ->
                 IF Len(a.args) > 0 /\ a.args[1].k = "model"
                   THEN LET nested_partial == _create_partial_model(mf, a.args[1].cls)
                        IN [mf |-> nested_partial.mf,
                            ann |-> ListT(ModelT(nested_partial.cls)),
                            default |-> ListV(<<>>)]
                   ELSE [mf |-> mf, ann |-> a, default |-> ListV(<<>>)]
            [] a.k = "int" -> [mf |-> mf, ann |-> a, default |-> IntV(0)]
            [] a.k = "float" -> [mf |-> mf, ann |-> a, default |-> FloatV(0)]
            [] a.k = "bool" -> [mf |-> mf, ann |-> a, default |-> BoolV(FALSE)]
            [] a.k = "model" ->
                 LET nested_partial == _create_partial_model(mf, a.cls)
                 IN [mf |-> nested_partial.mf,
                     ann |-> ModelT(nested_partial.cls),
                     default |-> DefaultInstance(nested_partial.mf, nested_partial.cls)]
            [] OTHER -> [mf |-> mf, ann |-> a, default |-> NoneV]
        mutated == [step.mf EXCEPT ![cls][i].ann = step.ann]
    IN PartialFields(mutated, cls, i + 1,
                     Append(fields, FieldInfoWith(field_info.fname,
                                                  UnionTypeT(<<step.ann, NoneT>>),
                                                  step.default)))

_create_partial_model(mf, cls) ==
  IF StartsWith(cls, Partial) THEN [mf |-> mf, cls |-> cls]
  ELSE LET r == PartialFields(mf, cls, 1, <<>>)
           partial_name == Partial \o cls
       IN [mf |-> (partial_name :> r.fields) @@ r.mf, cls |-> partial_name]

(***************************************************************************)
(* The texts a generator produces for a model: documents as sequences of   *)
(* tokens (a tag or a run of text), complete and well formed, and the same *)
(* with one closing tag written as an opening tag.                         *)
(***************************************************************************)
MaxItems == 2
MaxMovies == 2
MaxChunk == 2

RECURSIVE Flat(_)
Flat(toks) == IF toks = <<>> THEN <<>> ELSE Head(toks) \o Flat(Tail(toks))

Elem(tag, inner) == <<OpenTagString(tag)>> \o inner \o <<CloseTagString(tag)>>

TextElem(tag, text) == Elem(tag, IF text = <<>> THEN <<>> ELSE <<text>>)

SeqsUpTo(S, k) == UNION {[1..m -> S] : m \in 0..k}

NameTexts == {<<>>, <<"A">>, <<"b", ">">>}
LabelTexts == {<<>>, <<"x">>, <<"y">>}
TitleTexts == {<<>>, <<"T">>}
DirectorTexts == {<<>>, <<"D">>}
ThinkingTexts == {<<"A">>}
OperationTexts == {<<>>, v_open, v_edit, v_create, n_EDIT, <<"2">>, <<"0">>, <<"9", "9">>}

DocToks(t, ls) ==
  TextElem(f_name, t)
  \o Elem(f_tags, Flat([i \in 1..Len(ls) |->
                          Elem(camel_to_snake(Item), TextElem(f_label, ls[i]))]))

ResponseObjectToks(rs) ==
  Elem(f_response, Elem(f_movies, Flat([i \in 1..Len(rs) |->
         Elem(camel_to_snake(Movie),
              TextElem(f_title, rs[i][1]) \o TextElem(f_director, rs[i][2]))])))

FileActionToks(t, o) == TextElem(f_thinking, t) \o TextElem(f_file_operation, o)

WellFormedTokens(cls) ==
  CASE cls = Doc ->
         {DocToks(t, ls) : t \in NameTexts, ls \in SeqsUpTo(LabelTexts, MaxItems)}
    [] cls = ResponseObject ->
         {ResponseObjectToks(rs) : rs \in SeqsUpTo(TitleTexts \X DirectorTexts, MaxMovies)}
    [] cls = FileAction ->
         {FileActionToks(t, o) : t \in ThinkingTexts, o \in OperationTexts}

IsClosingTag(tok) == Len(tok) >= 2 /\ tok[1] = "<" /\ tok[2] = "/"

(* The closing tag at i written without its slash. *)
Unslash(toks, i) ==
  [toks EXCEPT ![i] = <<"<">> \o SubSeq(toks[i], 3, Len(toks[i]))]

MalformedTokens(cls) ==
  UNION {{Unslash(toks, i) : i \in {j \in 1..Len(toks) : IsClosingTag(toks[j])}}
           : toks \in WellFormedTokens(cls)}

Models == {Doc, ResponseObject, FileAction}

WellFormed(cls) == {Flat(toks) : toks \in WellFormedTokens(cls)}
Malformed(cls) == {Flat(toks) : toks \in MalformedTokens(cls)}

buffer == SubSeq(doc, 1, n)

(***************************************************************************)
(* A streaming session of parser2.parse_xml: the caller parses the buffer  *)
(* again each time it has grown.                                           *)
(***************************************************************************)
Init ==
  /\ model_fields = DeclaredFields
  /\ model \in Models
  /\ doc \in WellFormed(model) \cup Malformed(model)
  /\ n = 0
  /\ out = parse_xml(model_fields, model, <<>>)
  /\ partial_out = NoneV
  /\ calls = <<>>

(* The buffer grows by a few characters and is parsed. *)
Feed ==
  /\ \E k \in 1..MaxChunk :
       /\ n + k <= Len(doc)
       /\ n' = n + k
       /\ out' = parse_xml(model_fields, model, SubSeq(doc, 1, n + k))
  /\ UNCHANGED <<model_fields, model, doc, partial_out, calls>>

(* The same buffer is parsed once more. *)
Reparse ==
  /\ out' = parse_xml(model_fields, model, buffer)
  /\ UNCHANGED <<model_fields, model, doc, n, partial_out, calls>>

Next == Feed \/ Reparse

Spec == Init /\ [][Next]_vars

(***************************************************************************)
(* The same session in a process where parse_xml of parser.py is also      *)
(* called, with the same model and a blank buffer.                         *)
(***************************************************************************)
BlankCall ==
  /\ LET partial == _create_partial_model(model_fields, model)
     IN /\ model_fields' = partial.mf
        /\ partial_out' = DefaultInstance(partial.mf, partial.cls)
  /\ UNCHANGED <<model, doc, n, out, calls>>

InitShared ==
  /\ model_fields = DeclaredFields
  /\ model \in {Doc, ResponseObject}
  /\ doc \in WellFormed(model)
  /\ n = 0
  /\ out = parse_xml(model_fields, model, <<>>)
  /\ partial_out = NoneV
  /\ calls = <<>>

NextShared == Feed \/ Reparse \/ BlankCall

SpecShared == InitShared /\ [][NextShared]_vars

(***************************************************************************)
(* Streaming sessions for models with alternatives, optional fields and    *)
(* lists of primitives.                                                    *)
(***************************************************************************)
MaxActions == 2

(* An element of class a[1] whose fields, in declaration order, have the   *)
(* texts a[2], a[3], ...                                                   *)
ItemToks(a) ==
  Elem(camel_to_snake(a[1]),
       Flat([i \in 1..Len(DeclaredFields[a[1]]) |->
               TextElem(DeclaredFields[a[1]][i].fname, a[i + 1])]))

ActionItems ==
  {<<CreateAction, <<"p">>, <<"c">>>>, <<EditAction, <<"p">>, <<"c">>>>,
   <<CommandAction, <<"c">>>>}

StepItems == {<<CommandAction, <<"c">>>>, <<ShellAction, <<"c">>>>}

CodeActionToks(t, as) ==
  TextElem(f_thinking, t)
  \o Elem(f_actions, Flat([i \in 1..Len(as) |-> ItemToks(as[i])]))

ScriptToks(ss) == Elem(f_steps, Flat([i \in 1..Len(ss) |-> ItemToks(ss[i])]))

(* A group_action element holding one create_action element. *)
GroupToks == Elem(camel_to_snake(GroupAction),
                  ItemToks(<<CreateAction, <<"p">>, <<"c">>>>))

BasicResponseToks(t, m) == TextElem(f_thinking, t) \o TextElem(f_movies, m)

(* o: the texts of the optional_field elements written (none or one). *)
ModelWithOptionalToks(r, o) ==
  TextElem(f_required_field, r)
  \o Flat([i \in 1..Len(o) |-> TextElem(f_optional_field, o[i])])

ShapeTokens(cls) ==
  CASE cls = CodeAction ->
         {CodeActionToks(t, as) : t \in ThinkingTexts,
                                  as \in SeqsUpTo(ActionItems, MaxActions)}
    [] cls = Script -> {ScriptToks(ss) : ss \in SeqsUpTo(StepItems, MaxActions)}
    [] cls = Plan -> {ItemToks(<<CommandAction, <<"c">>>>), GroupToks}
    [] cls \in {BasicResponse, TypingBasicResponse} ->
         {BasicResponseToks(t, m) : t \in ThinkingTexts, m \in {<<>>, <<"m">>}}
    [] cls \in {ModelWithOptional, ModelWithTypingOptional} ->
         {ModelWithOptionalToks(r, o) : r \in {<<"r">>}, o \in SeqsUpTo({<<"o">>}, 1)}
    [] cls = Label -> {TextElem(f_label, <<"x">>)}

ShapeModels ==
  {CodeAction, Script, Plan, BasicResponse, TypingBasicResponse,
   ModelWithOptional, ModelWithTypingOptional, Label}

InitShapes ==
  /\ model_fields = DeclaredFields
  /\ model \in ShapeModels
  /\ doc \in {Flat(toks) : toks \in ShapeTokens(model)}
  /\ n = 0
  /\ out = parse_xml(model_fields, model, <<>>)
  /\ partial_out = NoneV
  /\ calls = <<>>

SpecShapes == InitShapes /\ [][Next]_vars

(***************************************************************************)
(* Concurrent calls on one model.  Threads 1..NumParsers call parse_xml of *)
(* parser2.py, each with a buffer of its own; thread 0 calls parse_xml of  *)
(* parser.py with a blank buffer.  A step is a stretch of a call between   *)
(* two accesses to the model's fields, which the threads share: a parser2  *)
(* call reads model_fields of one class at a time while it builds the type *)
(* dict (line 66-69), the blank call assigns one annotation at a time      *)
(* (parser.py 443, 458).  calls[t].alone records what the call returns if  *)
(* no other thread takes a step before it ends.                            *)
(***************************************************************************)
NumParsers == 2

Parsers == 1..NumParsers
Blank == 0

Idle == [pc |-> "idle", buffer |-> <<>>, xml |-> <<>>, top |-> <<>>,
         type_dict |-> NoneV, result |-> NoneV, alone |-> NoneV]

BlankIdle == [pc |-> "idle", writes |-> <<>>, final |-> NoneV]

(* The class whose partial class the blank call makes for a field of       *)
(* annotation a (parser.py 438-441 and 455-456), <<>> if there is none.    *)
NestedModel(a) ==
  IF a.k = "model" THEN a.cls
  ELSE IF a.k \in {"list", "typinglist"} /\ Len(a.args) > 0 /\ a.args[1].k = "model"
    THEN a.args[1].cls
  ELSE <<>>

(* The states of the classes' fields after each assignment to a            *)
(* field_info.annotation that _create_partial_model(cls) makes, in order,  *)
(* from field i on.                                                        *)
RECURSIVE AnnotationWrites(_, _, _)
AnnotationWrites(mf, cls, i) ==
  IF StartsWith(cls, Partial) \/ i > Len(mf[cls]) THEN <<>>
  ELSE
    LET a == mf[cls][i].ann
    IN IF NestedModel(a) = <<>> THEN AnnotationWrites(mf, cls, i + 1)
       ELSE
         LET nested_partial == _create_partial_model(mf, NestedModel(a))
             assigned == IF a.k = "model" THEN ModelT(nested_partial.cls)
                         ELSE ListT(ModelT(nested_partial.cls))
             after == [nested_partial.mf EXCEPT ![cls][i].ann = assigned]
         IN AnnotationWrites(mf, NestedModel(a), 1) \o <<after>>
            \o AnnotationWrites(after, cls, i + 1)

(* The documents the threads parse. *)
ConcurrentTokens(cls) ==
  CASE cls = Doc -> {DocToks(<<"A">>, ls) : ls \in SeqsUpTo({<<"x">>}, MaxItems)}
    [] cls = ResponseObject ->
         {ResponseObjectToks(rs) : rs \in SeqsUpTo({<<(<<"T">>), (<<"D">>)>>}, MaxMovies)}

InitConcurrent ==
  /\ model_fields = DeclaredFields
  /\ model \in {Doc, ResponseObject}
  /\ doc \in {Flat(toks) : toks \in ConcurrentTokens(model)}
  /\ n = 0
  /\ out = parse_xml(model_fields, model, <<>>)
  /\ partial_out = NoneV
  /\ calls = [t \in Parsers \cup {Blank} |-> IF t = Blank THEN BlankIdle ELSE Idle]

(* parser2.parse_xml is called with the empty or the complete text; line   *)
(* 249 cleans it.                                                          *)
Call(t) ==
  /\ calls[t].pc = "idle"
  /\ \E b \in {<<>>, doc} :
       calls' = [calls EXCEPT ![t] =
                   [Idle EXCEPT !.pc = "cleaned", !.buffer = b, !.xml = _clean_xml(b),
                                !.alone = parse_xml(model_fields, model, b)]]
  /\ UNCHANGED <<model_fields, model, doc, n, out, partial_out>>

(* Line 250, first read: the fields of the model class itself. *)
InspectTop(t) ==
  /\ calls[t].pc = "cleaned"
  /\ calls' = [calls EXCEPT ![t].pc = "top", ![t].top = model_fields[model]]
  /\ UNCHANGED <<model_fields, model, doc, n, out, partial_out>>

(* Line 250, the reads that follow: the fields of the classes below. *)
InspectRest(t) ==
  /\ calls[t].pc = "top"
  /\ calls' = [calls EXCEPT
                 ![t].pc = "inspected",
                 ![t].type_dict =
                    inspect_type_annotation([model_fields EXCEPT ![model] = calls[t].top],
                                            ModelT(model), <<>>)]
  /\ UNCHANGED <<model_fields, model, doc, n, out, partial_out>>

(* Lines 253-259: the match, the completion and the construction. *)
Finish(t) ==
  /\ calls[t].pc = "inspected"
  /\ calls' = [calls EXCEPT
                 ![t].pc = "done",
                 ![t].result = ModelOf(model, ParsedDictOf(calls[t].type_dict,
                                                           calls[t].xml))]
  /\ UNCHANGED <<model_fields, model, doc, n, out, partial_out>>

(* The caller takes the value. *)
Return(t) ==
  /\ calls[t].pc = "done"
  /\ out' = calls[t].result
  /\ calls' = [calls EXCEPT ![t] = Idle]
  /\ UNCHANGED <<model_fields, model, doc, n, partial_out>>

(* parser.parse_xml is called with a blank buffer (lines 467-469). *)
BlankStart ==
  /\ calls[Blank].pc = "idle"
  /\ calls' = [calls EXCEPT ![Blank] =
                 [pc |-> "writing",
                  writes |-> AnnotationWrites(model_fields, model, 1),
                  final |-> _create_partial_model(model_fields, model)]]
  /\ UNCHANGED <<model_fields, model, doc, n, out, partial_out>>

(* The next assignment to a field_info.annotation (lines 443, 458). *)
BlankWrite ==
  /\ calls[Blank].pc = "writing"
  /\ calls[Blank].writes # <<>>
  /\ model_fields' = Head(calls[Blank].writes)
  /\ calls' = [calls EXCEPT ![Blank].writes = Tail(@)]
  /\ UNCHANGED <<model, doc, n, out, partial_out>>

(* create_model of the outermost partial class and its instance (464, 469). *)
BlankReturn ==
  /\ calls[Blank].pc = "writing"
  /\ calls[Blank].writes = <<>>
  /\ model_fields' = calls[Blank].final.mf
  /\ partial_out' = DefaultInstance(calls[Blank].final.mf, calls[Blank].final.cls)
  /\ calls' = [calls EXCEPT ![Blank] = BlankIdle]
  /\ UNCHANGED <<model, doc, n, out>>

NextConcurrent ==
  \/ \E t \in Parsers : Call(t)
  \/ \E t \in Parsers : InspectTop(t)
  \/ \E t \in Parsers : InspectRest(t)
  \/ \E t \in Parsers : Finish(t)
  \/ \E t \in Parsers : Return(t)
  \/ BlankStart
  \/ BlankWrite
  \/ BlankReturn

SpecConcurrent == InitConcurrent /\ [][NextConcurrent]_vars

(***************************************************************************)
(* What the specification promises of a result.                            *)
(***************************************************************************)
TagOf(field_info) ==
  IF field_info.ann.k = "model" THEN camel_to_snake(field_info.ann.cls)
  ELSE field_info.fname

(* Every declared field is present, at every depth. *)
RECURSIVE Covered(_, _)
Covered(ann, x) ==
  CASE ann.k = "model" ->
         /\ x.t = "dict"
         /\ \A i \in 1..Len(DeclaredFields[ann.cls]) :
              LET f == DeclaredFields[ann.cls][i]
              IN f.fname \in DOMAIN x.v /\ Covered(f.ann, x.v[f.fname])
    [] ann.k = "list" ->
         x.t = "list" /\ \A i \in 1..Len(x.v) : Covered(ann.args[1], x.v[i])
    [] OTHER -> TRUE

(* Default completion of the specification: a primitive at its zero value, *)
(* a list empty, an enumeration at its first variant, an object with every *)
(* field defaulted.                                                        *)
RECURSIVE FullyDefaulted(_)
FullyDefaulted(ann) ==
  CASE ann.k = "str" -> StrV(<<>>)
    [] ann.k = "int" -> IntV(0)
    [] ann.k = "float" -> FloatV(0)
    [] ann.k = "bool" -> BoolV(FALSE)
    [] ann.k = "list" -> ListV(<<>>)
    [] ann.k = "enum" -> EnumV(ann.cls, EnumValues(ann.cls)[1])
    [] ann.k = "model" ->
         LET fields == DeclaredFields[ann.cls]
         IN DictV([nm \in {fields[i].fname : i \in 1..Len(fields)} |->
                     FullyDefaulted((CHOOSE f \in {fields[i] : i \in 1..Len(fields)} :
                                       f.fname = nm).ann)])
    [] OTHER -> NoneV

(* The values, in document order, of the fields of x written with tag nm. *)
RECURSIVE FieldValues(_, _, _, _)
FieldValues(ann, tag, x, nm) ==
  (IF tag = nm THEN <<x>> ELSE <<>>)
  \o (CASE ann.k = "list" /\ x.t = "list" ->
             Flat([i \in 1..Len(x.v) |->
                     FieldValues(ann.args[1], camel_to_snake(ann.args[1].cls),
                                 x.v[i], nm)])
        [] ann.k = "model" /\ x.t = "dict" ->
             LET fields == DeclaredFields[ann.cls]
             IN Flat([i \in 1..Len(fields) |->
                        IF fields[i].fname \in DOMAIN x.v
                          THEN FieldValues(fields[i].ann, TagOf(fields[i]),
                                           x.v[fields[i].fname], nm)
                          ELSE <<>>])
        [] OTHER -> <<>>)

FieldTags ==
  {f_name, f_tags, camel_to_snake(Item), f_label, f_thinking, f_file_operation,
   f_response, f_movies, camel_to_snake(Movie), f_title, f_director}

(* How many times pat occurs in text. *)
Occurrences(text, pat) ==
  Cardinality({p \in 0..Len(text) : MatchAt(text, p, pat)})

(* The values of the documents of the three families. *)
DocValue(t, ls) ==
  DictV((f_name :> StrV(t))
        @@ (f_tags :> ListV([i \in 1..Len(ls) |-> DictV(f_label :> StrV(ls[i]))])))

ResponseObjectValue(rs) ==
  DictV(f_response :> DictV(f_movies :> ListV([i \in 1..Len(rs) |->
          DictV((f_title :> StrV(rs[i][1])) @@ (f_director :> StrV(rs[i][2])))])))

FileActionValue(t, variant) ==
  DictV((f_thinking :> StrV(t)) @@ (f_file_operation :> EnumV(FileOperation, variant)))

Prefixes(s) == {SubSeq(s, 1, k) : k \in 0..Len(s)}

(* The object nodes of a descriptor tree. *)
RECURSIVE ObjectNodes(_)
ObjectNodes(d) ==
  (IF d.origin.k = "model" THEN {d} ELSE {})
  \cup UNION {ObjectNodes(d.args[i]) : i \in 1..Len(d.args)}

(* No field of the node is an alternative: every child has a tag name. *)
NoAlternativeField(node) == \A i \in 1..Len(node.args) : node.args[i].hasName

(* The excluding sets tried for a node: the sets of its own name and its   *)
(* children's names.                                                       *)
ExcludingSets(node) ==
  SUBSET ({node.name} \cup {node.args[i].name : i \in 1..Len(node.args)})

(* The map of the direct fields of class cls: tag name -> child descriptor. *)
DirectFieldMap(mf, cls) ==
  [tag \in {TagOf(mf[cls][i]) : i \in 1..Len(mf[cls])} |->
     LET f == CHOOSE f \in {mf[cls][i] : i \in 1..Len(mf[cls])} : TagOf(f) = tag
     IN inspect_type_annotation(mf, f.ann, f.fname)]

ObjectCandidatesAsPromised(mf, tree) ==
  ~tree.bad =>
    \A node \in ObjectNodes(tree) :
      NoAlternativeField(node) =>
        \A excluding \in ExcludingSets(node) :
          /\ _get_possible_opening_tags(node, excluding)
               = [tag \in (DOMAIN DirectFieldMap(mf, node.origin.cls)) \ excluding |->
                    DirectFieldMap(mf, node.origin.cls)[tag]]
          /\ (DOMAIN _get_possible_opening_tags(node, excluding)) \cap excluding = {}

(* A child that is a union of objects. *)
UnionOfObjects(child) ==
  /\ ~child.hasName
  /\ child.origin.k = "union"
  /\ \A j \in 1..Len(child.args) : child.args[j].origin.k = "model"

(* A node one of whose fields is a union of objects, the others having a   *)
(* tag name.                                                               *)
HasAlternativeField(node) ==
  /\ \E i \in 1..Len(node.args) : UnionOfObjects(node.args[i])
  /\ \A i \in 1..Len(node.args) : node.args[i].hasName \/ UnionOfObjects(node.args[i])

(* All nodes of a descriptor tree. *)
RECURSIVE AllNodes(_)
AllNodes(d) == {d} \cup UNION {AllNodes(d.args[i]) : i \in 1..Len(d.args)}

(* The branches of the alternative fields of a node. *)
Branches(node) ==
  UNION {{node.args[i].args[j] : j \in 1..Len(node.args[i].args)} :
           i \in {k \in 1..Len(node.args) : UnionOfObjects(node.args[k])}}

NamedChildren(node) == {node.args[i] : i \in {k \in 1..Len(node.args) : node.args[k].hasName}}

(* Tag name -> descriptor for the named children of a node and for the     *)
(* branches of its alternative fields, each branch under its own tag.      *)
ChildrenAndBranches(node) ==
  [tag \in {c.name : c \in NamedChildren(node) \cup Branches(node)} |->
     CHOOSE c \in NamedChildren(node) \cup Branches(node) : c.name = tag]

(* The names that only an alternative nested inside a branch leads to. *)
NestedOnlyNames(node) ==
  {c.name : c \in UNION {Branches(b) : b \in Branches(node)}}
  \ DOMAIN ChildrenAndBranches(node)

(* The tag names of the fields of the branches themselves. *)
BranchFieldNames(node) == {c.name : c \in UNION {NamedChildren(b) : b \in Branches(node)}}

AlternativeCandidatesAsAmended(mf, tree) ==
  ~tree.bad =>
    \A node \in AllNodes(tree) :
      HasAlternativeField(node) =>
        \A excluding \in ExcludingSets(node) :
          /\ _get_possible_opening_tags(node, excluding)
               = [tag \in (DOMAIN ChildrenAndBranches(node)) \ excluding |->
                    ChildrenAndBranches(node)[tag]]
          /\ \A b \in Branches(node) :
               /\ b.name = camel_to_snake(b.origin.cls)
               /\ b = inspect_type_annotation(mf, b.origin, <<>>)
          /\ NestedOnlyNames(node) \cap DOMAIN _get_possible_opening_tags(node, excluding)
               = {}

AlternativeCandidatesAsStated(tree) ==
  ~tree.bad =>
    \A node \in AllNodes(tree) :
      HasAlternativeField(node) =>
        /\ BranchFieldNames(node) \subseteq DOMAIN _get_possible_opening_tags(node, {node.name})
        /\ NestedOnlyNames(node) \cap DOMAIN _get_possible_opening_tags(node, {node.name})
             = {}

(* The matcher excludes a node's own tag name from its candidates. *)
MatcherExcludesOwnName(tree) ==
  \A node \in {d \in AllNodes(tree) : d.hasName} :
    /\ node.name \in RecurseSeenTags(node)
    /\ node.name \notin DOMAIN _get_possible_opening_tags(node, RecurseSeenTags(node))

(* The call of default completion on the value r the matcher returned at   *)
(* the top (lines 254-256) excludes the node's own tag name.               *)
FillExcludesOwnName(tree, r) ==
  r.exc = "" => tree.name \in FillSeenTags(IF Truthy(r.val) THEN r.val ELSE EmptyDict)

(* The matcher's result r for a list node with items of class cls, when it *)
(* left by case 4 (neither tag found, lines 177-180), is as promised.      *)
ListCase4AsPromised(xml, cls, r) ==
  r.ret \in {179, 180} =>
    /\ r.exc = ""
    /\ r.pos = Len(xml)
    /\ ~r.content
    /\ r.val.t = "list"
    /\ r.ret = 179 => r.val = ListV(<<>>)
    /\ r.ret = 180 => /\ Len(r.val.v) > 0
                      /\ Covered(ModelT(cls), r.val.v[Len(r.val.v)])

(* The matcher run on the list node tags of Doc from the first <tags> on. *)
TagsCase4AsPromised(xml, tree, start) ==
  start.found =>
    ListCase4AsPromised(xml, Item,
      _recurse(xml, _get_possible_opening_tags(tree, RecurseSeenTags(tree))[f_tags],
               start.end))

(* Default completion of partial for the fields of class cls, as promised: *)
(* a field present in partial keeps its value, an absent required field    *)
(* has the default of its type.                                            *)
CompletedAsPromised(cls, partial, done) ==
  \A i \in 1..Len(DeclaredFields[cls]) :
    LET f == DeclaredFields[cls][i]
        tag == TagOf(f)
    IN IF tag \in DOMAIN partial.v
         THEN tag \in DOMAIN done.v /\ done.v[tag] = partial.v[tag]
         ELSE /\ tag \in DOMAIN done.v
              /\ Valid(f.ann, done.v[tag])
              /\ Construct(f.ann, done.v[tag]) = FullyDefaulted(f.ann)

(* CompletedAsPromised for every part of the value x taken as the partial  *)
(* value: x with only the fields in K observed.                            *)
PartsCompletedAsPromised(cls, type_dict, x) ==
  \A K \in SUBSET (DOMAIN x.v) :
    CompletedAsPromised(cls, DictV([k \in K |-> x.v[k]]),
                        _fill_with_empty(DictV([k \in K |-> x.v[k]]), type_dict))

(* The field is marked optional: its type is a union with None. *)
MarkedOptional(field_info) ==
  /\ field_info.ann.k \in {"union", "uniontype"}
  /\ \E i \in 1..Len(field_info.ann.args) : field_info.ann.args[i].k = "nonetype"

(* The model declares, at some depth, a list whose item type is a bare     *)
(* primitive.                                                              *)
RECURSIVE DeclaresPrimitiveList(_)
DeclaresPrimitiveList(ann) ==
  CASE ann.k \in {"list", "typinglist"} ->
         \/ ann.args[1].k \in {"str", "int", "float", "bool"}
         \/ DeclaresPrimitiveList(ann.args[1])
    [] ann.k \in {"union", "uniontype"} ->
         \E i \in 1..Len(ann.args) : DeclaresPrimitiveList(ann.args[i])
    [] ann.k = "model" ->
         \E i \in 1..Len(DeclaredFields[ann.cls]) :
           DeclaresPrimitiveList(DeclaredFields[ann.cls][i].ann)
    [] OTHER -> FALSE

(***************************************************************************)
(* The claims.                                                             *)
(***************************************************************************)

(* C1: parse_xml never raises: whatever the model and the buffer (empty,   *)
(* truncated at any character, malformed), no exception reaches the caller *)
(* and a value of the model is returned.                                   *)
C1_NeverRaises == out.exc = ""

(* C2: total default coverage: in the value parse_xml builds for any       *)
(* buffer, every required field is present at every nesting depth, in the  *)
(* objects closed in the text and in every list item too.                  *)
C2_TotalDefaultCoverage ==
  out.parsed # NoneV => Covered(ModelT(model), out.parsed)

(* C3: on the empty buffer parse_xml returns the fully defaulted value of  *)
(* the model.                                                              *)
C3_EmptyBufferFullyDefaulted ==
  buffer = <<>> => out.exc = "" /\ out.val = FullyDefaulted(ModelT(model))

(* C4: monotonicity under well-formed truncation: once the closing tag of  *)
(* a field lies in the prefix parsed, the field's value is the one it has  *)
(* in the parse of the whole document.                                     *)
C4_ClosedFieldsAreFinal ==
  doc \in WellFormed(model) =>
    LET final == parse_xml(model_fields, model, doc)
    IN \A nm \in FieldTags :
         LET k == Occurrences(buffer, CloseTagString(nm))
             now == FieldValues(ModelT(model), <<>>, out.val, nm)
             last == FieldValues(ModelT(model), <<>>, final.val, nm)
         IN k > 0 => /\ out.exc = "" /\ final.exc = ""
                     /\ Len(now) >= k /\ Len(last) >= k
                     /\ SubSeq(now, 1, k) = SubSeq(last, 1, k)

(* C5: parse_xml is a function of the model and the buffer only: a call    *)
(* with the same model and the same buffer as the call before it returns   *)
(* the same, whatever other calls were made in between.                    *)
C5_SameBufferSameValue ==
  [][(model' = model /\ doc' = doc /\ n' = n) => out' = out]_vars

(* C6: list accumulation boundary: while an item of the list is open or    *)
(* after it has closed, the parsed list holds exactly the items whose      *)
(* closing tags are in the buffer, in order, and not the item in progress. *)
C6_ListHoldsClosedItems ==
  \A t \in NameTexts, ls \in SeqsUpTo(LabelTexts, MaxItems) :
    (/\ model = Doc
     /\ doc = Flat(DocToks(t, ls))
     /\ Occurrences(buffer, OpenTagString(camel_to_snake(Item))) > 0)
    => LET k == Occurrences(buffer, CloseTagString(camel_to_snake(Item)))
       IN /\ out.exc = ""
          /\ out.val.v[f_tags] = ListV([i \in 1..k |-> DictV(f_label :> StrV(ls[i]))])

(* C7: for a complete well-formed document parse_xml returns one list item *)
(* per item element, in document order, each primitive field equal to the  *)
(* text between its tags; so ends the parse character by character.        *)
C7_CompleteDocument ==
  n = Len(doc) =>
    /\ \A t \in NameTexts, ls \in SeqsUpTo(LabelTexts, MaxItems) :
         (model = Doc /\ doc = Flat(DocToks(t, ls)))
         => out.exc = "" /\ out.val = DocValue(t, ls)
    /\ \A rs \in SeqsUpTo(TitleTexts \X DirectorTexts, MaxMovies) :
         (model = ResponseObject /\ doc = Flat(ResponseObjectToks(rs)))
         => out.exc = "" /\ out.val = ResponseObjectValue(rs)

(* C8: enumeration index law: for the variants open, edit, create the text *)
(* "2" parses to edit, and so do the name EDIT and the value edit; "99"    *)
(* and "0" parse to the default variant open.                              *)
C8_EnumIndexLaw ==
  \A t \in ThinkingTexts :
    /\ \A o \in {<<"2">>, n_EDIT, v_edit} :
         (model = FileAction /\ buffer = Flat(FileActionToks(t, o)))
         => out.exc = "" /\ out.val = FileActionValue(t, v_edit)
    /\ \A o \in {<<"9", "9">>, <<"0">>} :
         (model = FileAction /\ buffer = Flat(FileActionToks(t, o)))
         => out.exc = "" /\ out.val = FileActionValue(t, v_open)

(* C9: the buffer <name>A</name><tags><item><label>x</label></item><tags>  *)
(* parses to {name: "A", tags: [{label: "x"}]}.                            *)
C9_Scenario ==
  (/\ model = Doc
   /\ buffer = Flat(<<OpenTagString(f_name), <<"A">>, CloseTagString(f_name),
                      OpenTagString(f_tags), OpenTagString(camel_to_snake(Item)),
                      OpenTagString(f_label), <<"x">>, CloseTagString(f_label),
                      CloseTagString(camel_to_snake(Item)), OpenTagString(f_tags)>>))
  => out.exc = "" /\ out.val = DocValue(<<"A">>, <<(<<"x">>)>>)

(* C10: in-flight primitive text is visible: when the buffer ends after    *)
(* the opening tag of name and some of its text, before the closing tag is *)
(* complete (<name>A</nam), name is the text seen so far and tags is [].   *)
C10_InFlightText ==
  \A t \in NameTexts \ {<<>>} :
    \A seen \in Prefixes(t) \ {<<>>} :
      \A part \in Prefixes(CloseTagString(f_name)) \ {CloseTagString(f_name)} :
        (/\ model = Doc
         /\ buffer = OpenTagString(f_name) \o seen \o part
         /\ (seen = t \/ part = <<>>))
        => out.exc = "" /\ out.val = DocValue(seen, <<>>)

(* C11: in a list whose items are a union of objects, each parsed item is   *)
(* of the branch whose own element tag opened in the text; the tag alone    *)
(* decides, so two branches with the same field names are told apart.       *)
C11_BranchByTag ==
  n = Len(doc) =>
    /\ \A ss \in SeqsUpTo(StepItems, MaxActions) :
         (model = Script /\ doc = Flat(ScriptToks(ss)))
         => /\ out.exc = ""
            /\ Len(out.parsed.v[f_steps].v) = Len(ss)
            /\ \A i \in 1..Len(ss) :
                 BranchOf(DeclaredFields[Script][1].ann.args[1],
                          out.parsed.v[f_steps].v[i]) = ss[i][1]
    /\ \A t \in ThinkingTexts, as \in SeqsUpTo(ActionItems, MaxActions) :
         (model = CodeAction /\ doc = Flat(CodeActionToks(t, as)))
         => /\ out.exc = ""
            /\ Len(out.parsed.v[f_actions].v) = Len(as)
            /\ \A i \in 1..Len(as) :
                 BranchOf(DeclaredFields[CodeAction][2].ann.args[1],
                          out.parsed.v[f_actions].v[i]) = as[i][1]

(* C12: building the descriptor fails with the schema error exactly when   *)
(* the model declares a list whose item type is a bare primitive, and then *)
(* the error is what the parse raises; a model whose lists all have        *)
(* objects, unions of objects or lists as items is accepted.               *)
C12_SchemaErrorIffPrimitiveList ==
  /\ inspect_type_annotation(model_fields, ModelT(model), <<>>).bad
       <=> DeclaresPrimitiveList(ModelT(model))
  /\ out.exc = "AssertionError" <=> DeclaresPrimitiveList(ModelT(model))

(* C13: default completion leaves an unobserved optional field absent: a   *)
(* field marked optional whose tag has not opened in the buffer is not in  *)
(* the completed value.                                                    *)
C13_OptionalLeftAbsent ==
  out.parsed # NoneV =>
    \A i \in 1..Len(DeclaredFields[model]) :
      LET f == DeclaredFields[model][i]
      IN (MarkedOptional(f) /\ Occurrences(buffer, OpenTagString(TagOf(f))) = 0)
         => f.fname \notin DOMAIN out.parsed.v

(* C14: default completion gives every unobserved required field the       *)
(* default of its type (nested object: the completed empty object, list:   *)
(* the empty list, enumeration: its first variant, primitives: their zero  *)
(* value) and leaves the fields already present as they are.               *)
C14_RequiredGetTypeDefault ==
  out.parsed # NoneV =>
    PartsCompletedAsPromised(model,
      inspect_type_annotation(model_fields, ModelT(model), <<>>), out.parsed)

(* C15: parsing never modifies the model definition or the descriptor:     *)
(* after any sequence of parse calls the field types of every class are    *)
(* the declared ones and the descriptor built from the model is the one    *)
(* built from the declaration.                                             *)
C15_ModelNeverModified ==
  /\ model_fields = DeclaredFields
  /\ inspect_type_annotation(model_fields, ModelT(model), <<>>)
       = inspect_type_annotation(DeclaredFields, ModelT(model), <<>>)

(* C16: concurrent parse calls on one model, each with its own buffer, do  *)
(* not interfere: under every interleaving of their steps a call returns   *)
(* the value it returns when run alone.                                    *)
C16_NoInterference ==
  \A t \in Parsers : calls[t].pc = "done" => calls[t].result = calls[t].alone

C19_MatcherExcludesOwnName ==
  ~inspect_type_annotation(model_fields, ModelT(model), <<>>).bad =>
    MatcherExcludesOwnName(inspect_type_annotation(model_fields, ModelT(model), <<>>))

(* C19, as stated: every call of the candidate resolver, the one of        *)
(* default completion included, passes an excluding set that contains the  *)
(* current node's own tag name.                                            *)
C19_EveryCallExcludesOwnName ==
  ~inspect_type_annotation(model_fields, ModelT(model), <<>>).bad =>
    /\ MatcherExcludesOwnName(inspect_type_annotation(model_fields, ModelT(model), <<>>))
    /\ FillExcludesOwnName(
         inspect_type_annotation(model_fields, ModelT(model), <<>>),
         _recurse(_clean_xml(buffer),
                  inspect_type_annotation(model_fields, ModelT(model), <<>>), 0))

(* C19 witness: the model Label has a field of its own tag name; the       *)
(* buffer <label>x</label> has been parsed, the opening tag was not taken  *)
(* as the field and the field has its default.                             *)
C19_Witness ==
  /\ model = Label
  /\ n = Len(doc)
  /\ buffer = Flat(TextElem(f_label, <<"x">>))
  /\ TagOf(DeclaredFields[Label][1])
       = inspect_type_annotation(model_fields, ModelT(model), <<>>).name
  /\ out.exc = ""
  /\ out.parsed = DictV(f_label :> StrV(<<>>))

(* C20: matcher case 4 for a list node: when neither a candidate opening   *)
(* tag nor the list's closing tag occurs at or after pos, the matcher      *)
(* returns the empty list with hasContent false if no item was             *)
(* accumulated, and otherwise the accumulated items with the last one      *)
(* default-completed, newPos at the end of the buffer, hasContent false.   *)
C20_ListNeitherFound ==
  model = Doc =>
    TagsCase4AsPromised(_clean_xml(buffer),
      inspect_type_annotation(model_fields, ModelT(model), <<>>),
      SearchTag(_clean_xml(buffer), 0, {f_tags}, FALSE))

(***************************************************************************)
(* The calls of _recurse made in one parse.  A call is recorded with its   *)
(* node, the node and the start of the call that made it (of, ofpos), the  *)
(* caller's pos when it was made (from), the pos it was given and its      *)
(* result r.  The root call has no caller.                                 *)
(***************************************************************************)
NoCaller == [t |-> "none", v |-> <<>>]

CallRecord(node, of, ofpos, from, pos, r) ==
  [node |-> node, of |-> of, ofpos |-> ofpos, from |-> from, pos |-> pos, r |-> r]

RECURSIVE CallsIn(_, _, _, _), CallsAfter(_, _, _, _, _, _, _)
(* The calls made from pos on by the loop of the call of open_arg that     *)
(* started at start, with the calls those make (lines 166-207).            *)
CallsIn(xml_content, open_arg, start, pos) ==
  IF ~(pos < Len(xml_content)) THEN {}
  ELSE
    LET tags == _get_possible_opening_tags(open_arg, RecurseSeenTags(open_arg))
        opening_match == IF DOMAIN tags = {} THEN NoMatch
                         ELSE SearchTag(xml_content, pos, DOMAIN tags, FALSE)
        closing_match == SearchTag(xml_content, pos, {open_arg.name}, TRUE)
    IN IF /\ opening_match.found
          /\ (~closing_match.found \/ opening_match.start < closing_match.start)
         THEN CallsAfter(xml_content, open_arg, start, pos, tags[opening_match.group],
                         opening_match.end,
                         _recurse(xml_content, tags[opening_match.group],
                                  opening_match.end))
         ELSE {}

(* The call of child at at, which returned r, and what follows it. *)
CallsAfter(xml_content, open_arg, start, pos, child, at, r) ==
  {CallRecord(child, open_arg, start, pos, at, r)}
  \cup CallsIn(xml_content, child, at, at)
  \cup (IF r.exc # "" THEN {} ELSE CallsIn(xml_content, open_arg, start, r.pos))

(* All calls of the parse of xml_content for the descriptor tree. *)
MatcherCalls(xml_content, tree) ==
  IF tree.bad THEN {}
  ELSE {CallRecord(tree, NoCaller, -1, -1, 0, _recurse(xml_content, tree, 0))}
       \cup CallsIn(xml_content, tree, 0, 0)

(* The calls of the parse of the buffer for the model. *)
CallsNow ==
  MatcherCalls(_clean_xml(buffer),
               inspect_type_annotation(model_fields, ModelT(model), <<>>))

IsPrimitiveNode(node) == node.origin.k \in {"str", "int", "float", "bool", "enum"}

(* What case 4 promises of the call c of a primitive node: the text after  *)
(* the last opening tag of the node to the end, the end, hasContent true.  *)
PrimitiveCase4AsPromised(xml_content, c) ==
  (/\ IsPrimitiveNode(c.node)
   /\ ~SearchTag(xml_content, c.pos, {c.node.name}, TRUE).found)
  => /\ c.r.exc = ""
     /\ c.r.val = StrV(Slice(xml_content,
                             RFind(xml_content, OpenTagString(c.node.name),
                                   Len(xml_content))
                               + Len(OpenTagString(c.node.name)),
                             Len(xml_content)))
     /\ c.r.pos = Len(xml_content)
     /\ c.r.content

(* C21: matcher case 4 for a primitive node: when no closing tag of the    *)
(* node occurs at or after pos, the call returns as raw value everything   *)
(* after the last occurrence of the node's opening tag to the end of the   *)
(* buffer, newPos the end of the buffer and hasContent true.               *)
C21_PrimitiveNeitherFound ==
  \A c \in CallsNow : PrimitiveCase4AsPromised(_clean_xml(buffer), c)

(***************************************************************************)
(* Streaming sessions over documents in which a field's element is written *)
(* more than once inside one object element.                               *)
(***************************************************************************)
MaxRepeats == 2

(* The elements of tag with the texts ts, one after the other. *)
RepeatedElems(tag, ts) == Flat([i \in 1..Len(ts) |-> TextElem(tag, ts[i])])

ResponseBodies ==
  {<<>>, Elem(f_movies, <<>>),
   Elem(f_movies, Elem(camel_to_snake(Movie),
                       TextElem(f_title, <<"T">>) \o TextElem(f_director, <<"D">>)))}

RepeatTokens(cls) ==
  CASE cls = Doc ->
         {RepeatedElems(f_name, ts) \o Elem(f_tags, <<>>)
            : ts \in SeqsUpTo(NameTexts, MaxRepeats)}
         \cup {Elem(f_tags, Elem(camel_to_snake(Item), RepeatedElems(f_label, ls)))
                 : ls \in SeqsUpTo(LabelTexts, MaxRepeats)}
         \cup {DocToks(<<>>, ls) : ls \in SeqsUpTo(LabelTexts, MaxRepeats)}
    [] cls = ResponseObject ->
         {Elem(f_response, b1) \o Elem(f_response, b2)
            : b1 \in ResponseBodies, b2 \in ResponseBodies}

InitRepeats ==
  /\ model_fields = DeclaredFields
  /\ model \in {Doc, ResponseObject}
  /\ doc \in {Flat(toks) : toks \in RepeatTokens(model)}
  /\ n = 0
  /\ out = parse_xml(model_fields, model, <<>>)
  /\ partial_out = NoneV
  /\ calls = <<>>

SpecRepeats == InitRepeats /\ [][Next]_vars

(* A value is non-empty: a text with a character, a list with an item, an  *)
(* object with a field.                                                    *)
NonEmpty(x) ==
  CASE x.t \in {"str", "list"} -> Len(x.v) > 0
    [] x.t = "dict" -> \E k \in DOMAIN x.v : TRUE
    [] OTHER -> FALSE

IsObjectCall(c) == c.r.exc = "" /\ c.node.origin.k = "model"

(* The calls the call c made itself. *)
ChildrenOf(all, c) == {d \in all : d.of = c.node /\ d.ofpos = c.pos}

(* The children of c for the field tag that returned a non-empty value. *)
NonEmptyFor(all, c, tag) ==
  {d \in ChildrenOf(all, c) : d.node.name = tag /\ NonEmpty(d.r.val)}

(* In the value of the object call c every field that had a non-empty      *)
(* child holds the value of one of them, and a value returned at the       *)
(* closing tag has no other fields.                                        *)
KeepsNonEmpty(all, c) ==
  /\ \A d \in ChildrenOf(all, c) :
       NonEmpty(d.r.val) =>
         /\ d.node.name \in DOMAIN c.r.val.v
         /\ \E e \in NonEmptyFor(all, c, d.node.name) : c.r.val.v[d.node.name] = e.r.val
  /\ c.r.ret = 213 =>
       DOMAIN c.r.val.v = {d.node.name : d \in {e \in ChildrenOf(all, c) : NonEmpty(e.r.val)}}

AllKeepNonEmpty(all) == \A c \in all : IsObjectCall(c) => KeepsNonEmpty(all, c)

(* C22: in an object node a child value is assigned to its field only if   *)
(* it is non-empty: a field that has had a non-empty value keeps a         *)
(* non-empty value when a later element of the same tag parses to an empty *)
(* one, and an empty child value is never assigned.                        *)
C22_EmptyNeverAssigned == AllKeepNonEmpty(CallsNow)

(* C22 witness: an object element has been matched in which a field's      *)
(* element with a non-empty value is followed by one of the same tag with  *)
(* an empty value, both closed; the field holds the first value.           *)
C22_Witness ==
  \E c \in CallsNow :
    /\ IsObjectCall(c)
    /\ \E d1 \in ChildrenOf(CallsNow, c), d2 \in ChildrenOf(CallsNow, c) :
         /\ d1.node.name = d2.node.name
         /\ d1.pos < d2.pos
         /\ NonEmpty(d1.r.val) /\ ~NonEmpty(d2.r.val)
         /\ d1.r.ret \in {210, 213, 221} /\ d2.r.ret \in {210, 213, 221}
         /\ c.r.val.v[d1.node.name] = d1.r.val

(* The last of the calls in ds, by position in the buffer. *)
LastCall(ds) == CHOOSE d \in ds : \A e \in ds : e.pos <= d.pos

(* Every field of an object call's value that had a non-empty child holds *)
(* the value of the last of them.                                          *)
AllHoldLastNonEmpty(all) ==
  \A c \in all :
    IsObjectCall(c) =>
      \A d \in ChildrenOf(all, c) :
        NonEmpty(d.r.val) =>
          /\ d.node.name \in DOMAIN c.r.val.v
          /\ c.r.val.v[d.node.name] = LastCall(NonEmptyFor(all, c, d.node.name)).r.val

(* C29: when the same field tag occurs several times inside one object     *)
(* element, the field's value is the value of the last occurrence that     *)
(* parsed to a non-empty value.                                            *)
C29_LastNonEmptyWins == AllHoldLastNonEmpty(CallsNow)

(* C29 witness: an object element has been matched in which a field's      *)
(* element occurs twice with different non-empty values; the field holds   *)
(* the second.                                                             *)
C29_Witness ==
  \E c \in CallsNow :
    /\ IsObjectCall(c)
    /\ \E d1 \in ChildrenOf(CallsNow, c), d2 \in ChildrenOf(CallsNow, c) :
         /\ d1.node.name = d2.node.name
         /\ d1.pos < d2.pos
         /\ NonEmpty(d1.r.val) /\ NonEmpty(d2.r.val) /\ d1.r.val # d2.r.val
         /\ c.r.val.v[d1.node.name] = d2.r.val

IsListCall(c) == c.r.exc = "" /\ c.node.origin.k = "list"

(* The values returned by the calls ds, in the order of their positions.   *)
RECURSIVE ValuesInOrder(_)
ValuesInOrder(ds) ==
  IF ds = {} THEN <<>>
  ELSE LET first == CHOOSE d \in ds : \A e \in ds : d.pos <= e.pos
       IN <<first.r.val>> \o ValuesInOrder(ds \ {first})

(* The children of c that reported content. *)
WithContent(all, c) == {d \in ChildrenOf(all, c) : d.r.content}

(* The list returned by the list call c holds the values of exactly the    *)
(* children that reported content, in their order.                         *)
AppendedIffContent(all, c) ==
  c.r.val = ListV(ValuesInOrder(WithContent(all, c)))

ListContentAsAmended(all) ==
  \A c \in all :
    IsListCall(c) =>
      /\ AppendedIffContent(all, c)
      /\ c.r.ret = 210 => c.r.content
      /\ c.r.ret \in {179, 180} => ~c.r.content
      /\ c.r.ret = 224 => (c.r.content <=> WithContent(all, c) # {})

ListContentAsStated(all) ==
  \A c \in all :
    IsListCall(c) =>
      /\ AppendedIffContent(all, c)
      /\ c.r.content <=> WithContent(all, c) # {}

(* C23, as amended: a list call that returns holds the values of exactly   *)
(* the children that reported hasContent true; its own hasContent is true  *)
(* when it returns at the list's closing tag, false when neither tag was   *)
(* found, and the OR of its children's when the buffer ended.              *)
C23_AppendIffContent == ListContentAsAmended(CallsNow)

(* C23, as stated: a list call holds the values of exactly the children    *)
(* that reported hasContent true, and its own hasContent is the OR of its  *)
(* children's.                                                             *)
C23_ContentIsOrOfChildren == ListContentAsStated(CallsNow)

(* C23 witness: a list call has returned after a child that reported       *)
(* content, which is in the list, and a child that reported none, which    *)
(* is not.                                                                 *)
C23_Witness ==
  \E c \in CallsNow :
    /\ IsListCall(c)
    /\ \E d1 \in ChildrenOf(CallsNow, c), d2 \in ChildrenOf(CallsNow, c) :
         d1.r.content /\ ~d2.r.content /\ c.r.val = ListV(<<d1.r.val>>)
    /\ c.r.content

(* The return statements inside the while loop: case 4 (lines 179-190) and *)
(* case 6 (lines 210-221).                                                 *)
InLoopReturns == {179, 180, 183, 190, 210, 213, 221}

(* C24: every return of the matcher is one of the returns inside the loop  *)
(* (case 4 or case 6): no call leaves through the code after the loop.     *)
C24_ReturnsInsideLoop ==
  \A c \in CallsNow : c.r.exc = "" => c.r.ret \in InLoopReturns

(***************************************************************************)
(* Streaming sessions over buffers that have text around the document, as  *)
(* a language model writes it: before the first tag and after the last.    *)
(***************************************************************************)
NoiseBefore == {<<>>, <<"a">>, <<"a", ">">>, <<"\n">>}
NoiseAfter == {<<>>, <<"z">>, <<"<", "z">>, <<"\n">>}

NoisyDocs ==
  {before \o Flat(DocToks(t, ls)) \o after :
     before \in NoiseBefore, after \in NoiseAfter,
     t \in NameTexts, ls \in SeqsUpTo({<<"x">>}, 1)}

(* Texts of a primitive element that look like tags: an opening tag of a  *)
(* sibling field, of the element itself, of an item and its field.         *)
TagLikeTexts ==
  {OpenTagString(f_tags), OpenTagString(f_name) \o <<"A">>,
   OpenTagString(camel_to_snake(Item)) \o OpenTagString(f_label) \o <<"x">>}

TagTextDocs ==
  {Flat(DocToks(t, ls)) : t \in TagLikeTexts, ls \in SeqsUpTo({<<"x">>}, 1)}

InitNoise ==
  /\ model_fields = DeclaredFields
  /\ model = Doc
  /\ doc \in NoisyDocs \cup TagTextDocs
  /\ n = 0
  /\ out = parse_xml(model_fields, model, <<>>)
  /\ partial_out = NoneV
  /\ calls = <<>>

SpecNoise == InitNoise /\ [][Next]_vars

(* The part of s from its first "<" through its last ">"; nothing when     *)
(* there is no such part.                                                  *)
FirstToLast(s) ==
  LET first == {i \in 1..Len(s) : s[i] = "<" /\ \A j \in 1..(i - 1) : s[j] # "<"}
      last == {i \in 1..Len(s) : s[i] = ">" /\ \A j \in (i + 1)..Len(s) : s[j] # ">"}
  IN IF first = {} \/ last = {} THEN <<>>
     ELSE LET i == CHOOSE i \in first : TRUE
              j == CHOOSE j \in last : TRUE
          IN IF j < i THEN <<>> ELSE [k \in 1..(j - i + 1) |-> s[i + k - 1]]

(* C25: strict normalization returns exactly the part of the buffer from   *)
(* its first "<" through its last ">", everything between unchanged, and   *)
(* the value parse_xml returns is the model built from the matcher's       *)
(* result on that part.                                                    *)
C25_StrictNormalization ==
  /\ _clean_xml(buffer) = FirstToLast(buffer)
  /\ out = ModelOf(model,
                   ParsedDictOf(inspect_type_annotation(model_fields, ModelT(model), <<>>),
                                FirstToLast(buffer)))

(* C25 witness: a buffer with text holding ">" before its first tag and    *)
(* text holding "<" after its last has been parsed; the name element       *)
(* between them was matched.                                               *)
C25_Witness ==
  /\ buffer = doc
  /\ \E t \in NameTexts \ {<<>>} :
       /\ buffer = <<"a", ">">> \o Flat(DocToks(t, <<>>)) \o <<"<", "z">>
       /\ _clean_xml(buffer) = Flat(DocToks(t, <<>>))
       /\ out.exc = ""
       /\ out.val = DocValue(t, <<>>)

(* The strict pass gave nothing usable: the matcher's call at the root     *)
(* raised, or returned an empty value (line 255).                          *)
NothingUsable(r) == r.exc # "" \/ ~NonEmpty(r.val)

(* C26: two-phase recovery: when the strict pass yields nothing usable and *)
(* no other pass yields more, parse_xml returns the fully defaulted value  *)
(* of the whole model, never an exception and never a value with a         *)
(* required field missing or null.                                         *)
C26_NothingUsableGivesDefaults ==
  \A c \in CallsNow :
    (c.of = NoCaller /\ NothingUsable(c.r)) =>
      /\ out.exc = ""
      /\ out.val = FullyDefaulted(ModelT(model))

(* The positions of the call c advance: it starts after the pos its caller *)
(* had, and the newPos it returns is between its own pos and the end of    *)
(* the buffer, so the caller's pos grows.                                  *)
PositionsAdvance(xml_content, c) ==
  /\ c.of # NoCaller => 0 <= c.ofpos /\ c.ofpos <= c.from /\ c.from < c.pos
  /\ c.pos <= Len(xml_content)
  /\ c.r.exc = "" => /\ c.pos <= c.r.pos
                     /\ c.r.pos <= Len(xml_content)
                     /\ c.from < c.r.pos

AllAdvance(xml_content, all) ==
  /\ \A c \in all : PositionsAdvance(xml_content, c)
  /\ Cardinality(all) <= Occurrences(xml_content, <<"<">>) + 1

(* C27: the matcher terminates on every finite buffer: every recursive     *)
(* call starts at a position strictly greater than its caller's pos, every *)
(* returned newPos is between the call's pos and the length of the buffer, *)
(* so each iteration that recurses leaves pos strictly larger, and a parse *)
(* makes at most one call for each "<" of the buffer, and the root call.   *)
C27_MatcherTerminates == AllAdvance(_clean_xml(buffer), CallsNow)

(* C27 witness: a parse in which a call made another that made another,    *)
(* each returning a position beyond its start, the root returning the      *)
(* length of the buffer.                                                   *)
C27_Witness ==
  \E c \in CallsNow, d \in CallsNow, e \in CallsNow :
    /\ c.of = NoCaller /\ c.r.exc = "" /\ c.r.pos = Len(_clean_xml(buffer))
    /\ d \in ChildrenOf(CallsNow, c) /\ e \in ChildrenOf(CallsNow, d)
    /\ e.r.pos > e.pos /\ d.r.pos > e.r.pos
    /\ Cardinality(ChildrenOf(CallsNow, c)) > 1

(* What is promised of the call c of a primitive node when the closing tag *)
(* of the node occurs at or after its pos: the node has no candidates, the *)
(* call made no call, and it returned the text from its pos to the first   *)
(* such closing tag, unchanged, and the position after that tag.           *)
OpaqueAsPromised(xml_content, all, c, closing_match) ==
  (IsPrimitiveNode(c.node) /\ closing_match.found) =>
    /\ DOMAIN _get_possible_opening_tags(c.node, RecurseSeenTags(c.node)) = {}
    /\ ChildrenOf(all, c) = {}
    /\ c.r.exc = ""
    /\ c.r.val = StrV([k \in 1..(closing_match.start - c.pos) |-> xml_content[c.pos + k]])
    /\ c.r.pos = closing_match.end
    /\ c.r.content

AllOpaque(xml_content, all) ==
  \A c \in all :
    OpaqueAsPromised(xml_content, all, c,
                     SearchTag(xml_content, c.pos, {c.node.name}, TRUE))

(* C28: a primitive element is opaque: a primitive node has no candidate   *)
(* children, so tag-like text inside it is never parsed as a child and is  *)
(* kept verbatim in the value, which ends at the first closing tag of the  *)
(* primitive's own name at or after pos.                                   *)
C28_PrimitiveOpaque == AllOpaque(_clean_xml(buffer), CallsNow)

(* C28 witness: a name element whose text holds an opening tag that is a   *)
(* candidate of the enclosing node has been matched to its closing tag;    *)
(* the tag is in the value of name and no call was made for it.            *)
C28_Witness ==
  \E c \in CallsNow :
    /\ IsPrimitiveNode(c.node)
    /\ c.node.name = f_name
    /\ c.r.ret = 221
    /\ \E t \in TagLikeTexts :
         /\ c.r.val = StrV(t)
         /\ \E nm \in DOMAIN _get_possible_opening_tags(c.of, RecurseSeenTags(c.of)) :
              Occurrences(t, OpenTagString(nm)) > 0
    /\ \A d \in CallsNow : d.pos <= c.pos \/ d.pos >= c.r.pos

(* a is b with some of its elements left out. *)
RECURSIVE IsSubsequence(_, _)
IsSubsequence(a, b) ==
  IF a = <<>> THEN TRUE
  ELSE IF b = <<>> THEN FALSE
  ELSE IF Head(a) = Head(b) THEN IsSubsequence(Tail(a), Tail(b))
  ELSE IsSubsequence(a, Tail(b))

(* The call d was made for an opening tag of its node that lies in the     *)
(* buffer after the start of the call c.                                   *)
OpenedAfter(xml_content, c, d) ==
  /\ d.pos - Len(OpenTagString(d.node.name)) >= c.pos
  /\ MatchAt(xml_content, d.pos - Len(OpenTagString(d.node.name)),
             OpenTagString(d.node.name))

(* The opening tags of the candidates of node at or after pos. *)
ItemTagsFrom(xml_content, node, pos) ==
  TagStarts(xml_content, pos,
            DOMAIN _get_possible_opening_tags(node, RecurseSeenTags(node)), FALSE)

(* The list returned by the list call c is made of values of item elements *)
(* opened after the list's opening tag, in the order of their opening      *)
(* tags, and has no more items than there are such tags.                   *)
ListFollowsItemTags(xml_content, all, c) ==
  /\ \A d \in ChildrenOf(all, c) : OpenedAfter(xml_content, c, d)
  /\ IsSubsequence(c.r.val.v, ValuesInOrder(ChildrenOf(all, c)))
  /\ Len(c.r.val.v) <= Cardinality(ChildrenOf(all, c))
  /\ Cardinality(ChildrenOf(all, c))
       <= Cardinality(ItemTagsFrom(xml_content, c.node, c.pos))

(* The lists in the value x, at any depth. *)
RECURSIVE ListsIn(_)
ListsIn(x) ==
  CASE x.t = "list" -> {x} \cup UNION {ListsIn(x.v[i]) : i \in 1..Len(x.v)}
    [] x.t = "dict" -> UNION {ListsIn(x.v[k]) : k \in DOMAIN x.v}
    [] OTHER -> {}

AllListsFollowItemTags(xml_content, all, parsed) ==
  /\ \A c \in all : IsListCall(c) => ListFollowsItemTags(xml_content, all, c)
  /\ parsed # NoneV =>
       \A l \in ListsIn(parsed) :
         l = ListV(<<>>) \/ \E c \in all : IsListCall(c) /\ c.r.val = l

(* C30: every parsed list is an order-preserving subsequence of the item   *)
(* elements opened in the buffer after the list's opening tag: its items   *)
(* are in the order of their opening tags and are never more than the item *)
(* opening tags seen; every list of the parsed value is such a list or     *)
(* the empty list.                                                         *)
C30_ListsFollowItemTags == AllListsFollowItemTags(_clean_xml(buffer), CallsNow, out.parsed)

(* C30 witness: a list with two item elements of different values has      *)
(* been matched to its closing tag; the parsed list holds the two values   *)
(* in the order of the elements.                                           *)
C30_Witness ==
  /\ model = Doc
  /\ out.exc = ""
  /\ \E c \in CallsNow :
       /\ IsListCall(c)
       /\ c.r.ret = 210
       /\ Len(c.r.val.v) = 2
       /\ c.r.val.v[1] # c.r.val.v[2]
       /\ c.r.val = ListV(ValuesInOrder(ChildrenOf(CallsNow, c)))
       /\ out.parsed.v[f_tags] = c.r.val

====
